---- MODULE Spec2Model ----
(***************************************************************************)
(* Model of the statement-extraction pipeline of                          *)
(* apps/extraction-api/app/main.py: text acquisition (native PDF text,     *)
(* OCR fallback, dual-pass image OCR), the six field parsers and the       *)
(* result assembly of process_extraction.                                  *)
(*                                                                         *)
(* Text is a string; a character is a string of length 1.  Confidences     *)
(* are integers in hundredths (0.90 is 90).  Decimal numbers are a pair    *)
(* (mantissa m, number of fraction digits d), standing for m / 10^d.       *)
(***************************************************************************)
EXTENDS Integers, Sequences, FiniteSets, TLC

\* ------------------------------------------------------------------------
\* Characters and character classes (Python str / re semantics on the
\* alphabet used by the documents below: ASCII and the section sign).
\* ------------------------------------------------------------------------
LowerLetters == "abcdefghijklmnopqrstuvwxyz"
UpperLetters == "ABCDEFGHIJKLMNOPQRSTUVWXYZ"
DigitString == "0123456789"

Ch(t, i) == IF i >= 1 /\ i <= Len(t) THEN SubSeq(t, i, i) ELSE ""

LowerSet == {SubSeq(LowerLetters, i, i) : i \in 1..26}
UpperSet == {SubSeq(UpperLetters, i, i) : i \in 1..26}
DigitSet == {SubSeq(DigitString, i, i) : i \in 1..10}
SpaceSet == {" ", "\n", "\t"}
WordSet == LowerSet \cup UpperSet \cup DigitSet \cup {"_"}

ToUpperMap ==
    [c \in LowerSet |->
        LET i == CHOOSE k \in 1..26 : SubSeq(LowerLetters, k, k) = c
        IN  SubSeq(UpperLetters, i, i)]

DigitValMap ==
    [c \in DigitSet |-> (CHOOSE k \in 1..10 : SubSeq(DigitString, k, k) = c) - 1]

UpperCh(c) == IF c \in LowerSet THEN ToUpperMap[c] ELSE c

\* Recursions over a text split the range in halves, which keeps their
\* depth logarithmic in the length of the text.
RECURSIVE UpperRange(_, _, _)
UpperRange(t, a, b) ==
    IF a > b THEN ""
    ELSE IF a = b THEN UpperCh(Ch(t, a))
    ELSE LET mid == (a + b) \div 2
         IN  UpperRange(t, a, mid) \o UpperRange(t, mid + 1, b)

\* str.upper()
Upper(t) == UpperRange(t, 1, Len(t))

RECURSIVE Rep(_, _)
\* s * n
Rep(s, n) ==
    IF n <= 0 THEN ""
    ELSE IF n = 1 THEN s
    ELSE Rep(s, n \div 2) \o Rep(s, n - (n \div 2))

\* index of the first character at or after i that is not in class S
\* (what a greedy  [S]*  leaves unread)
SkipClass(t, i, S) ==
    IF i < 1 \/ i > Len(t) THEN i
    ELSE CHOOSE j \in i..(Len(t) + 1) :
            /\ j = Len(t) + 1 \/ Ch(t, j) \notin S
            /\ \A k \in i..(j - 1) : Ch(t, k) \in S

\* index of the last character at or before j that is not in class S
SkipBack(t, j, S) ==
    IF j < 1 \/ j > Len(t) THEN j
    ELSE CHOOSE i \in 0..j :
            /\ i = 0 \/ Ch(t, i) \notin S
            /\ \A k \in (i + 1)..j : Ch(t, k) \in S

\* str.strip()
Strip(t) ==
    LET a == SkipClass(t, 1, SpaceSet)
        b == SkipBack(t, Len(t), SpaceSet)
    IN  IF a > b THEN "" ELSE SubSeq(t, a, b)

RECURSIVE RemoveRange(_, _, _, _)
RemoveRange(t, a, b, S) ==
    IF a > b THEN ""
    ELSE IF a = b THEN (IF Ch(t, a) \in S THEN "" ELSE Ch(t, a))
    ELSE LET mid == (a + b) \div 2
         IN  RemoveRange(t, a, mid, S) \o RemoveRange(t, mid + 1, b, S)

\* s.replace(c, "") for every c in S
Remove(t, S) == RemoveRange(t, 1, Len(t), S)

Contains(t, c) == \E i \in 1..Len(t) : Ch(t, i) = c

\* s.rstrip("%")
RStripPct(t) ==
    LET b == SkipBack(t, Len(t), {"%"}) IN IF b < 1 THEN "" ELSE SubSeq(t, 1, b)

Min(S) == CHOOSE x \in S : \A y \in S : x <= y

\* ------------------------------------------------------------------------
\* float(), and the "%.2f" format
\* ------------------------------------------------------------------------
RECURSIVE Pow10(_)
Pow10(n) == IF n <= 0 THEN 1 ELSE 10 * Pow10(n - 1)

RECURSIVE DigitsVal(_, _, _)
\* value of the digits of t from i on, skipping one decimal point
DigitsVal(t, i, acc) ==
    IF i > Len(t) THEN acc
    ELSE IF Ch(t, i) = "." THEN DigitsVal(t, i + 1, acc)
    ELSE DigitsVal(t, i + 1, 10 * acc + DigitValMap[Ch(t, i)])

NoFloat == [ok |-> FALSE, m |-> 0, d |-> 0]

\* float(s) for the tokens the patterns can capture: digits with at most one
\* decimal point and at least one digit; anything else raises ValueError.
ParseFloat(s) ==
    LET dots == {i \in 1..Len(s) : Ch(s, i) = "."}
        good == /\ \A i \in 1..Len(s) : Ch(s, i) \in DigitSet \cup {"."}
                /\ Cardinality(dots) <= 1
                /\ \E i \in 1..Len(s) : Ch(s, i) \in DigitSet
    IN  IF ~good THEN NoFloat
        ELSE [ok |-> TRUE,
              m  |-> DigitsVal(s, 1, 0),
              d  |-> IF dots = {} THEN 0 ELSE Len(s) - Min(dots)]

RECURSIVE NatStr(_)
\* str(n) for n >= 0
NatStr(n) ==
    IF n < 10 THEN SubSeq(DigitString, n + 1, n + 1)
    ELSE NatStr(n \div 10) \o SubSeq(DigitString, (n % 10) + 1, (n % 10) + 1)

Pad2(n) == IF n < 10 THEN "0" \o NatStr(n) ELSE NatStr(n)

\* f"{amount:.2f}": the amount in hundredths, rounded to nearest (a decimal
\* tie is resolved to even; the documents below contain no tie), then
\* printed as integer part, point, two digits.
Cents(f) ==
    IF f.d <= 2 THEN f.m * Pow10(2 - f.d)
    ELSE LET p == Pow10(f.d - 2)
             q == f.m \div p
             r == f.m % p
         IN  IF 2 * r > p \/ (2 * r = p /\ q % 2 = 1) THEN q + 1 ELSE q

Format2f(f) == LET c == Cents(f) IN NatStr(c \div 100) \o "." \o Pad2(c % 100)

FloatLt(f, n) == f.m < n * Pow10(f.d)
FloatGt(f, n) == f.m > n * Pow10(f.d)

\* ------------------------------------------------------------------------
\* Regular-expression building blocks.  A matcher takes the text t (and its
\* upper-cased copy U for re.IGNORECASE literals) and a position, and
\* returns the position after the match, or 0 when there is no match.
\* A capture is the pair of its first and last index; s = 0 means no match.
\* ------------------------------------------------------------------------
NoCap == [s |-> 0, e |-> 0]
Cap(a, b) == [s |-> a, e |-> b]
CapStr(t, c) == IF c.e < c.s THEN "" ELSE SubSeq(t, c.s, c.e)

ColonSpace == SpaceSet \cup {":"}
AmountSet == DigitSet \cup {","}
\* [\d§S] under re.IGNORECASE also accepts a lower-case s
RateSetIgnoreCase == DigitSet \cup {"§", "S", "s"}
RateSet == DigitSet \cup {"§", "S"}

\* a literal, case-insensitively (w is upper case)
LitAt(U, i, w) ==
    IF i >= 1 /\ i + Len(w) - 1 <= Len(U) /\ SubSeq(U, i, i + Len(w) - 1) = w
    THEN i + Len(w) ELSE 0

RECURSIVE LabelAt(_, _, _)
\* the words of a label separated by \s+
LabelAt(U, i, ws) ==
    LET e == LitAt(U, i, Head(ws))
    IN  IF e = 0 THEN 0
        ELSE IF Len(ws) = 1 THEN e
        ELSE IF Ch(U, e) \notin SpaceSet THEN 0
        ELSE LabelAt(U, SkipClass(U, e, SpaceSet), Tail(ws))

\* [:\s]+   (greedy; what follows never starts with a colon or a space, so
\* giving characters back cannot turn a failure into a match)
Sep1(t, i) ==
    LET p == SkipClass(t, i, ColonSpace) IN IF i >= 1 /\ p > i THEN p ELSE 0

\* ([S]+\.?\d*) at i
NumCap(t, i, S) ==
    LET a == SkipClass(t, i, S)
        b == IF Ch(t, a) = "." THEN a + 1 ELSE a
        c == SkipClass(t, b, DigitSet)
    IN  IF i < 1 \/ a = i THEN NoCap ELSE Cap(i, c - 1)

\* [:\s]+\$?\s*([\d,]+\.?\d*)
RestAmountLoose(t, e) ==
    LET p1 == Sep1(t, e)
        p2 == IF Ch(t, p1) = "$" THEN p1 + 1 ELSE p1
        p3 == SkipClass(t, p2, SpaceSet)
    IN  IF e = 0 \/ p1 = 0 THEN NoCap ELSE NumCap(t, p3, AmountSet)

\* [:\s]+(\$?[\d,]+\.?\d*)
RestAmountStrict(t, e) ==
    LET p1 == Sep1(t, e)
        p2 == IF Ch(t, p1) = "$" THEN p1 + 1 ELSE p1
        n  == NumCap(t, p2, AmountSet)
    IN  IF e = 0 \/ p1 = 0 \/ n.s = 0 THEN NoCap ELSE Cap(p1, n.e)

\* [:\s]+([\d§S]+\.?\d*)\s*%?     (compiled with re.IGNORECASE)
RestRate(t, e) ==
    LET p1 == Sep1(t, e)
    IN  IF e = 0 \/ p1 = 0 THEN NoCap ELSE NumCap(t, p1, RateSetIgnoreCase)

\* \d{1,2} followed by a character of S: the run of digits at i has length
\* 1 or 2 and the next character is in S; returns the index of that character
Digits12Then(t, i, S) ==
    LET a == SkipClass(t, i, DigitSet)
    IN  IF i >= 1 /\ a - i \in {1, 2} /\ Ch(t, a) \in S THEN a ELSE 0

\* \d{1,2}[/-]\d{1,2}[/-]\d{2,4}
DateNumericAt(t, p) ==
    LET a == Digits12Then(t, p, {"/", "-"})
        b == IF a = 0 THEN 0 ELSE Digits12Then(t, a + 1, {"/", "-"})
        c == SkipClass(t, b + 1, DigitSet)
        n == c - (b + 1)
    IN  IF a = 0 \/ b = 0 \/ n < 2 THEN NoCap
        ELSE Cap(p, b + (IF n > 4 THEN 4 ELSE n))

\* \w+\s+\d{1,2},?\s+\d{4}
DateWordsAt(t, p) ==
    LET w  == SkipClass(t, p, WordSet)
        d0 == SkipClass(t, w, SpaceSet)
        d1 == SkipClass(t, d0, DigitSet)
        c  == IF Ch(t, d1) = "," THEN d1 + 1 ELSE d1
        y0 == SkipClass(t, c, SpaceSet)
        y1 == SkipClass(t, y0, DigitSet)
    IN  IF /\ w > p
           /\ d0 > w
           /\ d1 - d0 \in {1, 2}
           /\ y0 > c
           /\ y1 - y0 >= 4
        THEN Cap(p, y0 + 3) ELSE NoCap

\* [:\s]+(\d{1,2}[/-]\d{1,2}[/-]\d{2,4}|\w+\s+\d{1,2},?\s+\d{4})
RestDate(t, e) ==
    LET p1 == Sep1(t, e)
    IN  IF e = 0 \/ p1 = 0 THEN NoCap
        ELSE IF DateNumericAt(t, p1).s # 0 THEN DateNumericAt(t, p1)
        ELSE DateWordsAt(t, p1)

\* (?:\s*\(.*?\))? followed by the rest R: the shortest parenthesis on the
\* line after which R matches, and without it R right after the label
WithOptParen(t, e, R(_, _)) ==
    LET k == SkipClass(t, e, SpaceSet)
    IN  IF e # 0 /\ Ch(t, k) = "("
        THEN LET closes == {j \in (k + 1)..Len(t) :
                               /\ Ch(t, j) = ")"
                               /\ \A x \in (k + 1)..(j - 1) : Ch(t, x) # "\n"
                               /\ R(t, j + 1).s # 0}
             IN  IF closes # {} THEN R(t, Min(closes) + 1) ELSE R(t, e)
        ELSE R(t, e)

RECURSIVE FirstCap(_)
\* the first alternative that matches
FirstCap(cs) ==
    IF cs = <<>> THEN NoCap
    ELSE IF Head(cs).s # 0 THEN Head(cs) ELSE FirstCap(Tail(cs))

\* re.search(pattern, text, re.IGNORECASE): the capture of the leftmost
\* position at which the pattern M matches
Search(t, U, M(_, _, _)) ==
    LET hits == {i \in 1..Len(t) : M(t, U, i).s # 0}
    IN  IF hits = {} THEN NoCap ELSE M(t, U, Min(hits))

\* ------------------------------------------------------------------------
\* FieldExtraction and the field parsers
\* ------------------------------------------------------------------------
None == [none |-> TRUE]
FieldExtraction(v, c, p) == [value |-> v, confidence |-> c, provenance |-> p]

PrincipalBalanceAt(t, U, i) ==
    FirstCap(<< RestAmountLoose(t, LabelAt(U, i, <<"PRINCIPAL", "BALANCE">>)),
                RestAmountLoose(t, LabelAt(U, i, <<"UNPAID", "PRINCIPAL", "BALANCE">>)),
                RestAmountLoose(t, LabelAt(U, i, <<"PRINCIPAL", "BALANCE">>)) >>)

extract_principal_balance(text, provenance) ==
    LET match == Search(text, Upper(text), PrincipalBalanceAt)
        value == Remove(CapStr(text, match), {","})
    IN  IF match.s # 0 /\ ParseFloat(value).ok
        THEN FieldExtraction(value, 90, provenance)
        ELSE None

AllDigits(s, a, b) == \A i \in a..b : Ch(s, i) \in DigitSet

normalize_rate_token(s) ==
    LET n == Len(s)
    IN  IF /\ n \in {6, 7}
           /\ Ch(s, 1) \in {"§", "S"}
           /\ Ch(s, 2) = "."
           /\ AllDigits(s, 3, n - 1)
           /\ Ch(s, n) = "%"
        THEN "5." \o SubSeq(s, 3, n - 1) \o "%"
        ELSE IF /\ n \in {7, 8}
                /\ Ch(s, 1) \in {"§", "S"}
                /\ Ch(s, 2) \in DigitSet
                /\ Ch(s, 3) = "."
                /\ AllDigits(s, 4, n - 1)
                /\ Ch(s, n) = "%"
        THEN "5" \o Ch(s, 2) \o "." \o SubSeq(s, 4, n - 1) \o "%"
        ELSE s

\* the sanity check  rate > 0 and rate <= 25  on float(value)
RateMax == 25
\* ValidRate with the upper bound exclusive
ValidRateExclusive(value) ==
    LET f == ParseFloat(value)
    IN  f.ok /\ FloatGt(f, 0) /\ FloatLt(f, RateMax)

ValidRate(value) ==
    LET f == ParseFloat(value)
    IN  f.ok /\ FloatGt(f, 0) /\ ~FloatGt(f, RateMax)

NoteRatePrimaryAt(t, U, i) ==
    FirstCap(<< WithOptParen(t, LabelAt(U, i, <<"INTEREST", "RATE">>), RestRate),
                WithOptParen(t, LabelAt(U, i, <<"NOTE", "RATE">>), RestRate),
                WithOptParen(t, LabelAt(U, i, <<"CURRENT", "INTEREST", "RATE">>), RestRate) >>)

\* the value of the primary rule: captured token, "%" appended, normalised,
\* "%" stripped
NoteRatePrimaryValue(text) ==
    LET match == Search(text, Upper(text), NoteRatePrimaryAt)
        c0 == CapStr(text, match)
        captured == IF Ch(c0, Len(c0)) = "%" THEN c0 ELSE c0 \o "%"
    IN  IF match.s = 0 THEN "" ELSE RStripPct(normalize_rate_token(captured))

InterestRatesAt(t, U, i) ==
    LET e == LabelAt(U, i, <<"INTEREST", "RATES">>)
    IN  IF e = 0 THEN NoCap ELSE Cap(i, e - 1)

SnippetLen == 500

\* text[start_pos:start_pos + 500] after the first "Interest Rates"
RateSnippet(text) ==
    LET m == Search(text, Upper(text), InterestRatesAt)
        a == m.e + 1
        b == IF a + SnippetLen - 1 < Len(text) THEN a + SnippetLen - 1 ELSE Len(text)
    IN  IF m.s = 0 \/ a > b THEN "" ELSE SubSeq(text, a, b)

\* [\d§S]{1,2}\.\d{2,4}% at i: the index of the "%", or 0
RateTokenAt(sn, i) ==
    LET k == IF Ch(sn, i) \in RateSet /\ Ch(sn, i + 1) \in RateSet THEN i + 2
             ELSE IF Ch(sn, i) \in RateSet THEN i + 1 ELSE 0
        d == SkipClass(sn, k + 1, DigitSet)
        n == d - (k + 1)
    IN  IF k # 0 /\ Ch(sn, k) = "." /\ n >= 2 /\ n <= 4 /\ Ch(sn, d) = "%"
        THEN d ELSE 0

RECURSIVE FindRateTokens(_, _)
\* re.findall: the non-overlapping matches, left to right
FindRateTokens(sn, i) ==
    LET hits == {j \in i..Len(sn) : RateTokenAt(sn, j) # 0}
    IN  IF hits = {} THEN <<>>
        ELSE LET j == Min(hits)
                 e == RateTokenAt(sn, j)
             IN  <<SubSeq(sn, j, e)>> \o FindRateTokens(sn, e + 1)

RECURSIVE ValidRates(_)
ValidRates(tokens) ==
    IF tokens = <<>> THEN <<>>
    ELSE LET value == RStripPct(normalize_rate_token(Head(tokens)))
         IN  (IF ValidRate(value) THEN <<value>> ELSE <<>>) \o ValidRates(Tail(tokens))

Count(vs, v) == Cardinality({i \in 1..Len(vs) : vs[i] = v})

\* Min and Count are defined here for MostCommonLast and MostCommon
Max(S) == CHOOSE x \in S : \A y \in S : y <= x

\* MostCommon with the value seen last winning among equal counts
MostCommonLast(vs) ==
    LET best == {i \in 1..Len(vs) : \A j \in 1..Len(vs) : Count(vs, vs[j]) <= Count(vs, vs[i])}
    IN  vs[Max(best)]

\* Counter(valid_rates).most_common(1)[0][0]: the highest count; among equal
\* counts the value inserted first
MostCommon(vs) ==
    LET best == {i \in 1..Len(vs) : \A j \in 1..Len(vs) : Count(vs, vs[j]) <= Count(vs, vs[i])}
    IN  vs[Min(best)]

extract_note_rate(text, provenance) ==
    LET value == NoteRatePrimaryValue(text)
        valid_rates == ValidRates(FindRateTokens(RateSnippet(text), 1))
    IN  IF ValidRate(value)
        THEN FieldExtraction(value, 90, provenance)
        ELSE IF valid_rates # <<>>
        THEN FieldExtraction(MostCommon(valid_rates), 70, provenance)
        ELSE None

PiPrimaryAt(t, U, i) ==
    FirstCap(<< RestAmountStrict(t, LabelAt(U, i, <<"PRINCIPAL", "AND", "INTEREST">>)),
                RestAmountStrict(t, LabelAt(U, i, <<"P&I">>)),
                RestAmountStrict(t, LabelAt(U, i, <<"P", "AND", "I">>)),
                RestAmountStrict(t, LabelAt(U, i, <<"PRINCIPAL", "&", "INTEREST">>)) >>)

PiSecondaryAt(t, U, i) ==
    FirstCap(<< RestAmountStrict(t, LabelAt(U, i, <<"MONTHLY", "PAYMENT">>)),
                RestAmountStrict(t, LabelAt(U, i, <<"PAYMENT", "AMOUNT">>)),
                RestAmountStrict(t, LabelAt(U, i, <<"TOTAL", "PAYMENT">>)) >>)

PiFallbackAt(t, U, i) ==
    RestAmountStrict(t, LabelAt(U, i, <<"AMOUNT", "DUE">>))

PiMin == 100
PiMax == 100000

\* the currency-marker check of a captured token
HasCurrencyMarker(captured) ==
    Contains(captured, "$") \/ Contains(captured, ",") \/ Contains(captured, ".")

\* InPiRange with both bounds exclusive
InPiRangeExclusive(f) == FloatGt(f, PiMin) /\ FloatLt(f, PiMax)

\* the sanity check  100 <= amount <= 100000
InPiRange(f) == ~(FloatLt(f, PiMin) \/ FloatGt(f, PiMax))

\* the body of the loop for one pattern: the formatted value, or "" when
\* the iteration ends in a continue
PiValue(captured) ==
    LET f == ParseFloat(Remove(captured, {"$", ","}))
    IN  IF ~HasCurrencyMarker(captured) THEN ""
        ELSE IF ~f.ok THEN ""
        ELSE IF ~InPiRange(f) THEN ""
        ELSE Format2f(f)

\* the first match of each pattern of all_patterns, with its confidence
PiMatches(text) ==
    LET U == Upper(text)
    IN  << [m |-> Search(text, U, PiPrimaryAt), confidence |-> 90],
           [m |-> Search(text, U, PiSecondaryAt), confidence |-> 80],
           [m |-> Search(text, U, PiFallbackAt), confidence |-> 65] >>

RECURSIVE PiLoop(_, _, _)
PiLoop(text, ms, provenance) ==
    IF ms = <<>> THEN None
    ELSE LET v == IF Head(ms).m.s = 0 THEN "" ELSE PiValue(CapStr(text, Head(ms).m))
         IN  IF v # "" THEN FieldExtraction(v, Head(ms).confidence, provenance)
             ELSE PiLoop(text, Tail(ms), provenance)

extract_scheduled_pi(text, provenance) == PiLoop(text, PiMatches(text), provenance)

EscrowAt(t, U, i) ==
    FirstCap(<< RestAmountLoose(t, LabelAt(U, i, <<"ESCROW", "PAYMENT">>)),
                RestAmountLoose(t, LabelAt(U, i, <<"ESCROW">>)) >>)

\* extract_escrow without the float(value) check
extract_escrow_unchecked(text, provenance) ==
    LET match == Search(text, Upper(text), EscrowAt)
        value == Remove(CapStr(text, match), {","})
    IN  IF match.s # 0 THEN FieldExtraction(value, 85, provenance) ELSE None

extract_escrow(text, provenance) ==
    LET match == Search(text, Upper(text), EscrowAt)
        value == Remove(CapStr(text, match), {","})
    IN  IF match.s # 0 /\ ParseFloat(value).ok
        THEN FieldExtraction(value, 85, provenance)
        ELSE None

\* ------------------------------------------------------------------------
\* Dates: dateutil's parser.parse on the two captured shapes, and
\* strftime("%Y-%m-%d")
\* ------------------------------------------------------------------------
NoDate == [ok |-> FALSE, y |-> 0, m |-> 0, d |-> 0]

MonthNames ==
    << <<"JAN", "JANUARY">>, <<"FEB", "FEBRUARY">>, <<"MAR", "MARCH">>,
       <<"APR", "APRIL">>, <<"MAY", "MAY">>, <<"JUN", "JUNE">>,
       <<"JUL", "JULY">>, <<"AUG", "AUGUST">>, <<"SEP", "SEPT", "SEPTEMBER">>,
       <<"OCT", "OCTOBER">>, <<"NOV", "NOVEMBER">>, <<"DEC", "DECEMBER">> >>

\* the month a word names, or 0
MonthOf(w) ==
    LET ms == {k \in 1..12 : \E j \in 1..Len(MonthNames[k]) : MonthNames[k][j] = Upper(w)}
    IN  IF ms = {} THEN 0 ELSE Min(ms)

IsLeap(y) == (y % 4 = 0 /\ y % 100 # 0) \/ y % 400 = 0

DaysIn(y, m) ==
    IF m \in {4, 6, 9, 11} THEN 30
    ELSE IF m = 2 THEN (IF IsLeap(y) THEN 29 ELSE 28)
    ELSE 31

\* datetime(y, m, d), which raises ValueError outside the calendar
MkDate(y, m, d) ==
    IF y >= 1 /\ y <= 9999 /\ m >= 1 /\ m <= 12 /\ d >= 1 /\ d <= DaysIn(y, m)
    THEN [ok |-> TRUE, y |-> y, m |-> m, d |-> d] ELSE NoDate

\* the year of a two-digit year token is taken in the century around the
\* current year; a longer token is the year itself
CurrentYear == 2026
ConvertYear(ystr) ==
    LET y == DigitsVal(ystr, 1, 0)
        c == y + (CurrentYear \div 100) * 100
    IN  IF Len(ystr) > 2 THEN y
        ELSE IF c >= CurrentYear + 50 THEN c - 100
        ELSE IF c < CurrentYear - 50 THEN c + 100
        ELSE c

\* three numbers a, b and the year token: a above 31 is read as a year
\* (and the triple is then no date when the last token is a long year),
\* a above 12 as a day, otherwise month first
ResolveYmd(a, b, ystr) ==
    LET last == DigitsVal(ystr, 1, 0)
    IN  IF a > 31
        THEN (IF Len(ystr) > 2 THEN NoDate
              ELSE MkDate(ConvertYear(NatStr(a)), b, last))
        ELSE IF a > 12 THEN MkDate(ConvertYear(ystr), b, a)
        ELSE MkDate(ConvertYear(ystr), a, b)

\* date_parser.parse(date_str) for a string captured by the date patterns;
\* ok = FALSE stands for ParserError / ValueError
ParseDate(s) ==
    LET a1 == SkipClass(s, 1, DigitSet)
        isNumeric == Ch(s, a1) \in {"/", "-"}
        b1 == SkipClass(s, a1 + 1, DigitSet)
        w  == SkipClass(s, 1, WordSet)
        d0 == SkipClass(s, w, SpaceSet)
        d1 == SkipClass(s, d0, DigitSet)
        word == SubSeq(s, 1, w - 1)
        day == DigitsVal(SubSeq(s, d0, d1 - 1), 1, 0)
        ystr == SubSeq(s, Len(s) - 3, Len(s))
    IN  IF isNumeric
        THEN ResolveYmd(DigitsVal(SubSeq(s, 1, a1 - 1), 1, 0),
                        DigitsVal(SubSeq(s, a1 + 1, b1 - 1), 1, 0),
                        SubSeq(s, b1 + 1, Len(s)))
        ELSE IF MonthOf(word) # 0
        THEN MkDate(DigitsVal(ystr, 1, 0), MonthOf(word), day)
        ELSE IF AllDigits(word, 1, Len(word)) /\ Len(word) <= 2
        THEN ResolveYmd(DigitsVal(word, 1, 0), day, ystr)
        ELSE NoDate

Pad4(n) ==
    IF n < 10 THEN "000" \o NatStr(n)
    ELSE IF n < 100 THEN "00" \o NatStr(n)
    ELSE IF n < 1000 THEN "0" \o NatStr(n)
    ELSE NatStr(n)

\* parsed_date.strftime("%Y-%m-%d"): the C library decides whether %Y pads
\* a year below 1000 to four digits (padYear) or prints it as it is
Strftime(dt, padYear) ==
    (IF padYear THEN Pad4(dt.y) ELSE NatStr(dt.y)) \o "-" \o Pad2(dt.m) \o "-" \o Pad2(dt.d)

NextDueDateAt(t, U, i) ==
    FirstCap(<< WithOptParen(t, LabelAt(U, i, <<"NEXT", "PAYMENT", "DUE">>), RestDate),
                WithOptParen(t, LabelAt(U, i, <<"PAYMENT", "DUE", "DATE">>), RestDate),
                WithOptParen(t, LabelAt(U, i, <<"PAYMENT", "DUE">>), RestDate) >>)

MaturityDateAt(t, U, i) ==
    FirstCap(<< RestDate(t, LabelAt(U, i, <<"MATURITY", "DATE">>)),
                RestDate(t, LabelAt(U, i, <<"PAYOFF", "DATE">>)) >>)

\* the body shared by the two date parsers, given the match
DateField(text, match, provenance, padYear) ==
    LET date_str == CapStr(text, match)
        parsed_date == ParseDate(date_str)
    IN  IF match.s = 0 THEN None
        ELSE IF parsed_date.ok
        THEN FieldExtraction(Strftime(parsed_date, padYear), 90, provenance)
        ELSE FieldExtraction(date_str, 50, provenance)

extract_next_due_date(text, provenance, padYear) ==
    DateField(text, Search(text, Upper(text), NextDueDateAt), provenance, padYear)

extract_maturity_date(text, provenance, padYear) ==
    DateField(text, Search(text, Upper(text), MaturityDateAt), provenance, padYear)

\* ------------------------------------------------------------------------
\* Text acquisition
\* ------------------------------------------------------------------------
Keywords ==
    <<"LOAN", "PAYMENT", "BORROWER", "PRINCIPAL", "INTEREST", "RATE", "MATURITY", "ESCROW">>

DigitCount(t) == Cardinality({i \in 1..Len(t) : Ch(t, i) \in DigitSet})

KeywordHits(t) ==
    LET U == Upper(t)
    IN  Cardinality({k \in 1..Len(Keywords) : \E i \in 1..Len(U) : LitAt(U, i, Keywords[k]) # 0})

KeywordWeight == 50
LengthUnit == 200

score_text(t) == DigitCount(t) + KeywordWeight * KeywordHits(t) + (Len(t) \div LengthUnit)

\* SelectPass with the enhanced pass winning a tie
SelectPassTieEnhanced(text_base, text_enhanced) ==
    IF score_text(text_enhanced) >= score_text(text_base) THEN text_enhanced ELSE text_base

\* the pass extract_text_from_image returns
SelectPass(text_base, text_enhanced) ==
    IF score_text(text_enhanced) > score_text(text_base) THEN text_enhanced ELSE text_base

\* what extract_text_from_pdf returns for the first page's text
PdfText(page_text) == IF Strip(page_text) # "" THEN page_text ELSE ""

OcrThreshold == 100

\* NeedsOcr with a text of exactly 100 characters counted as sparse
NeedsOcrInclusive(t) == Strip(t) = "" \/ Len(Strip(t)) <= OcrThreshold

\* the test  not text.strip() or len(text.strip()) < 100
NeedsOcr(t) == Strip(t) = "" \/ Len(Strip(t)) < OcrThreshold

\* Acquired testing the text without strip()
AcquiredUnstripped(t) == IF t # "" THEN "text_ready" ELSE "text_empty"

\* the branch  if text.strip()  that ends acquisition
Acquired(t) == IF Strip(t) # "" THEN "text_ready" ELSE "text_empty"

\* len(text.splitlines())
LineCount(t) ==
    Cardinality({i \in 1..Len(t) : Ch(t, i) = "\n"})
        + (IF t # "" /\ Ch(t, Len(t)) # "\n" THEN 1 ELSE 0)

SampleLen == 300
TextSample(t) == IF Len(t) > SampleLen THEN SubSeq(t, 1, SampleLen) ELSE t

FieldNames ==
    {"principal_balance", "note_rate", "scheduled_pi", "escrow", "next_due_date", "maturity_date"}

\* ------------------------------------------------------------------------
\* The documents: first-page texts a PDF text layer or an OCR pass yields
\* ------------------------------------------------------------------------
Statement ==
    "Principal Balance: $250,000.00\nInterest Rate: 4.125%\n"
    \o "Principal and Interest: $1,234.56\nEscrow Payment: $300.00\n"
    \o "Next Payment Due: 02/01/2026\nMaturity Date: 01/15/2045"

\* a rate token that ends with the last character of the 500-character
\* window, and one that the window cuts before its "%"
WindowInside == "Interest Rates" \o Rep(" ", SnippetLen - 7) \o "3.2500% 4.0000% 4.0000%"
WindowCut == "Interest Rates" \o Rep(" ", SnippetLen - 6) \o "3.2500% 4.0000%"

RateTexts ==
    { "Interest Rate: 4.125%",
      "Interest Rate: 30%",
      "Note Rate: 0",
      "Note Rate: 25",
      "Interest Rate: 25.0001%",
      "Interest Rate: §.5600%",
      "Note Rate S.7500",
      "Current Interest Rate (fixed): §5.1200%",
      "interest rate: s.5600%",
      "Interest Rates\n6.2500% 5.5000% 5.5000%",
      "Interest Rates 6.2500% 5.5000%",
      "Interest Rates 6.2500% 5.5000% 5.5000% 6.2500%",
      "Interest Rates 30.0000% §.5600% 0.0000%",
      "Interest Rates 30.0000%",
      "Interest Rate: 30% Interest Rates 4.5000% 4.5000%",
      WindowInside,
      WindowCut }

PiTexts ==
    { "P&I: 1200",
      "P&I: $1,200.00",
      "Monthly Payment: 1200.50",
      "Amount Due: $50.00",
      "Amount Due: $150000.00",
      "Principal & Interest $1,234.56",
      "P and I: $100.00",
      "Total Payment: $100,000.00",
      "P&I: $99.99",
      "Payment Amount: 100,000.01",
      "Monthly Payment: 1200.507",
      "P&I: ,",
      "P&I: 1200\nMonthly Payment: $1,500.00",
      "P&I: 1200\nP&I: $1,300.00",
      "Amount Due: $50.00\nAmount Due: $500.00\nMonthly Payment: 1500" }

DateTexts ==
    { "Maturity Date: 01/15/2045",
      "Maturity Date: 13/45/2045",
      "Payoff Date: January 15, 2045",
      "Next Payment Due: Foo 15, 2045",
      "Payment Due Date: 02/30/2026",
      "Payment Due (autopay): 15/01/2026",
      "Next Payment Due Date: 3-1-2026",
      "Maturity Date: 01/15/204",
      "Maturity Date: soon" }

OtherTexts ==
    { "",
      " \n ",
      "Thank you for your business",
      "Escrow: 300",
      "Escrow Payment: $1,250.75",
      "Escrow: ,",
      "Unpaid Principal Balance 250000",
      Rep("x", 99),
      Rep("x", 100),
      " " \o Rep("x", 99) \o "\n",
      Statement }

Documents == RateTexts \cup PiTexts \cup DateTexts \cup OtherTexts

\* what the re-extraction from the OCR-layered PDF yields
OcrTexts ==
    { "",
      "Thank you for your business",
      "P&I: $1,200.00",
      "Maturity Date: 13/45/2045",
      "Interest Rates 6.2500% 5.5000% 5.5000% 6.2500%",
      Statement }

\* what one OCR pass over an image yields
ImageTexts ==
    { "",
      " \n ",
      "1",
      Rep("x", 200),
      "Loan 12",
      "loan payment",
      "LOAN PAYMENT",
      "Escrow: 300",
      "Interest Rate: 4.125%",
      "Maturity Date: 01/15/204",
      Statement }

\* ------------------------------------------------------------------------
\* process_extraction as a state machine
\* ------------------------------------------------------------------------
MaxRequests == 2

VARIABLES
    pc,                \* position in process_extraction
    requests,          \* number of requests started
    pad_year,          \* whether the platform's strftime pads %Y
    file_type,
    text,
    text_provenance,
    extracted_fields,
    debug_info,
    native_text,       \* what extract_text_from_pdf returned for the upload
    ocr_runs,          \* calls of run_ocrmypdf in this request
    ocr_output,        \* whether the file at ocr_pdf_path exists
    ocr_page,          \* the first-page text of the OCR-layered PDF
    ocr_passes,        \* the two texts of the image passes
    parsers_run,       \* whether the field parsers were called
    failures           \* acquisition steps that failed in this request

vars ==
    << pc, requests, pad_year, file_type, text, text_provenance, extracted_fields,
       debug_info, native_text, ocr_runs, ocr_output, ocr_page,
                    ocr_passes, parsers_run, failures >>

NoFields == [f \in FieldNames |-> None]
NoPasses == [ran |-> FALSE, base |-> "", enhanced |-> ""]

Init ==
    /\ pc = "idle"
    /\ requests = 0
    /\ pad_year \in BOOLEAN
    /\ file_type = ""
    /\ text = ""
    /\ text_provenance = ""
    /\ extracted_fields = NoFields
    /\ debug_info = [doc_type |-> "", pages_used |-> <<>>, timings_ms |-> <<>>, errors |-> <<>>]
    /\ native_text = ""
    /\ ocr_runs = 0
    /\ ocr_output = "absent"
    /\ ocr_page = ""
    /\ ocr_passes = NoPasses
    /\ parsers_run = FALSE
    /\ failures = {}

\* process_extraction is entered: the locals before the try block
Request(ft) ==
    /\ pc \in {"idle", "done"}
    /\ requests < MaxRequests
    /\ requests' = requests + 1
    /\ file_type' = ft
    /\ debug_info' = [doc_type |-> ft, pages_used |-> <<1>>, timings_ms |-> <<>>, errors |-> <<>>]
    /\ extracted_fields' = NoFields
    /\ text' = ""
    /\ text_provenance' = IF ft = "pdf" THEN "pdf_text" ELSE "ocr_text"
    /\ native_text' = ""
    /\ ocr_runs' = 0
    /\ ocr_output' = "absent"
    /\ ocr_page' = ""
    /\ ocr_passes' = NoPasses
    /\ parsers_run' = FALSE
    /\ failures' = {}
    /\ pc' = IF ft = "pdf" THEN "direct_pdf_text" ELSE "image_ocr"
    /\ UNCHANGED pad_year

\* text, text_provenance = extract_text_from_pdf(file_path), and the test
\* that decides on the OCR fallback
ExtractTextFromPdf ==
    /\ pc = "direct_pdf_text"
    /\ \/ /\ text' = ""
          /\ failures' = failures \cup {"pdf"}
       \/ /\ \E page \in Documents : text' = PdfText(page)
          /\ UNCHANGED failures
    /\ text_provenance' = "pdf_text"
    /\ native_text' = text'
    /\ pc' = IF NeedsOcr(text') THEN "needs_ocr" ELSE Acquired(text')
    /\ UNCHANGED << requests, pad_year, file_type, extracted_fields, debug_info,
                    ocr_runs, ocr_output, ocr_page,
                    ocr_passes, parsers_run >>

\* RunOcrmypdf with the native text dropped when the tool fails
RunOcrmypdfDropsText ==
    /\ pc = "needs_ocr"
    /\ ocr_runs' = ocr_runs + 1
    /\ \/ /\ ocr_output' = "present"
          /\ ocr_page' \in OcrTexts
          /\ pc' = "ocr_recovered"
          /\ UNCHANGED << failures, text >>
       \/ /\ ocr_output' \in {"absent", "present"}
          /\ failures' = failures \cup {"ocr_tool"}
          /\ text' = ""
          /\ pc' = "text_empty"
          /\ UNCHANGED ocr_page
    /\ UNCHANGED << requests, pad_year, file_type, text_provenance, extracted_fields,
                    debug_info, native_text, ocr_passes, parsers_run >>

\* run_ocrmypdf(file_path, ocr_pdf_path)
RunOcrmypdf ==
    /\ pc = "needs_ocr"
    /\ ocr_runs' = ocr_runs + 1
    /\ \/ /\ ocr_output' = "present"
          /\ ocr_page' \in OcrTexts
          /\ pc' = "ocr_recovered"
          /\ UNCHANGED failures
       \/ /\ ocr_output' \in {"absent", "present"}
          /\ failures' = failures \cup {"ocr_tool"}
          /\ pc' = Acquired(text)
          /\ UNCHANGED ocr_page
    /\ UNCHANGED << requests, pad_year, file_type, text, text_provenance, extracted_fields,
                    debug_info, native_text, ocr_passes, parsers_run >>

\* ReExtract with a failed os.remove reported in debug_info["errors"]
ReExtractReportsRemove ==
    /\ pc = "ocr_recovered"
    /\ \/ /\ text' = ""
          /\ failures' = failures \cup {"reextract"}
       \/ /\ text' = PdfText(ocr_page)
          /\ UNCHANGED failures
    /\ text_provenance' = "ocr_text"
    /\ \/ /\ ocr_output' = "absent"
          /\ UNCHANGED debug_info
       \/ /\ ocr_output' = "present"
          /\ debug_info' = [debug_info EXCEPT !.errors = Append(@, "remove")]
    /\ pc' = Acquired(text')
    /\ UNCHANGED << requests, pad_year, file_type, extracted_fields,
                    native_text, ocr_runs, ocr_page, ocr_passes, parsers_run >>

\* the branch taken when run_ocrmypdf returned True: re-extraction from the
\* OCR output, the provenance, and os.remove inside try/except
ReExtract ==
    /\ pc = "ocr_recovered"
    /\ \/ /\ text' = ""
          /\ failures' = failures \cup {"reextract"}
       \/ /\ text' = PdfText(ocr_page)
          /\ UNCHANGED failures
    /\ text_provenance' = "ocr_text"
    /\ ocr_output' \in {"absent", "present"}
    /\ pc' = Acquired(text')
    /\ UNCHANGED << requests, pad_year, file_type, extracted_fields, debug_info,
                    native_text, ocr_runs, ocr_page, ocr_passes, parsers_run >>

\* text, text_provenance = extract_text_from_image(file_path)
ExtractTextFromImage ==
    /\ pc = "image_ocr"
    /\ \/ /\ text' = ""
          /\ failures' = failures \cup {"image"}
          /\ UNCHANGED ocr_passes
       \/ /\ \E b \in ImageTexts, e \in ImageTexts :
                /\ ocr_passes' = [ran |-> TRUE, base |-> b, enhanced |-> e]
                /\ text' = SelectPass(b, e)
          /\ UNCHANGED failures
    /\ text_provenance' = "ocr_text"
    /\ pc' = Acquired(text')
    /\ UNCHANGED << requests, pad_year, file_type, extracted_fields, debug_info,
                    native_text, ocr_runs, ocr_output, ocr_page, parsers_run >>

\* debug_info["text_stats"] and the optional debug_info["text_sample"]
WithStats(d, extract_debug) ==
    LET stats == [source |-> text_provenance, chars |-> Len(text), lines |-> LineCount(text)]
    IN  IF extract_debug
        THEN [doc_type |-> d.doc_type, pages_used |-> d.pages_used, timings_ms |-> d.timings_ms,
              errors |-> d.errors, text_stats |-> stats, text_sample |-> TextSample(text)]
        ELSE [doc_type |-> d.doc_type, pages_used |-> d.pages_used, timings_ms |-> d.timings_ms,
              errors |-> d.errors, text_stats |-> stats]

\* the heuristics step when text.strip() is not empty
RunHeuristics ==
    /\ pc = "text_ready"
    /\ \E extract_debug \in BOOLEAN : debug_info' = WithStats(debug_info, extract_debug)
    /\ extracted_fields' =
          [f \in FieldNames |->
              CASE f = "principal_balance" -> extract_principal_balance(text, text_provenance)
                [] f = "note_rate" -> extract_note_rate(text, text_provenance)
                [] f = "scheduled_pi" -> extract_scheduled_pi(text, text_provenance)
                [] f = "escrow" -> extract_escrow(text, text_provenance)
                [] f = "next_due_date" -> extract_next_due_date(text, text_provenance, pad_year)
                [] f = "maturity_date" -> extract_maturity_date(text, text_provenance, pad_year)]
    /\ parsers_run' = TRUE
    /\ pc' = "fields_extracted"
    /\ UNCHANGED << requests, pad_year, file_type, text, text_provenance, native_text,
                    ocr_runs, ocr_output, ocr_page,
                    ocr_passes, failures >>

NoTextError == "No text extracted from document"

\* the else branch of the heuristics step
NoText ==
    /\ pc = "text_empty"
    /\ \E extract_debug \in BOOLEAN :
          debug_info' = [WithStats(debug_info, extract_debug) EXCEPT
                            !.errors = Append(debug_info.errors, NoTextError)]
    /\ pc' = "fields_extracted"
    /\ UNCHANGED << requests, pad_year, file_type, text, text_provenance, extracted_fields,
                    native_text, ocr_runs, ocr_output, ocr_page,
                    ocr_passes, parsers_run, failures >>

\* FillNone with the provenance of the PDF branch for every empty field
FillNonePdfProvenance(fields, provenance) ==
    [f \in DOMAIN fields |->
        IF fields[f] = None THEN FieldExtraction("", 0, "pdf_text") ELSE fields[f]]

\* the loop that converts None fields to empty FieldExtractions
FillNone(fields, provenance) ==
    [f \in DOMAIN fields |->
        IF fields[f] = None THEN FieldExtraction("", 0, provenance) ELSE fields[f]]

\* None fields become empty extractions; the result is returned
Assemble ==
    /\ pc = "fields_extracted"
    /\ extracted_fields' = FillNone(extracted_fields, text_provenance)
    /\ pc' = "done"
    /\ UNCHANGED << requests, pad_year, file_type, text, text_provenance, debug_info,
                    native_text, ocr_runs, ocr_output, ocr_page,
                    ocr_passes, parsers_run, failures >>

Next ==
    \/ \E ft \in {"pdf", "image"} : Request(ft)
    \/ ExtractTextFromPdf
    \/ RunOcrmypdf
    \/ ReExtract
    \/ ExtractTextFromImage
    \/ RunHeuristics
    \/ NoText
    \/ Assemble

Spec == Init /\ [][Next]_vars

\* the acquisition steps of a request that has started are taken: the code
\* is sequential, and each of these calls returns (its exceptions are
\* caught inside the callee)
FairSpec ==
    /\ Spec
    /\ WF_vars(ExtractTextFromPdf)
    /\ WF_vars(RunOcrmypdf)
    /\ WF_vars(ReExtract)
    /\ WF_vars(ExtractTextFromImage)

\* ------------------------------------------------------------------------
\* Properties
\* ------------------------------------------------------------------------
SixFieldNames ==
    {"principal_balance", "note_rate", "scheduled_pi", "escrow", "next_due_date", "maturity_date"}

Returned == pc = "done"

ShapeC1 ==
    Returned =>
        /\ DOMAIN extracted_fields = SixFieldNames
        /\ \A f \in SixFieldNames :
              /\ extracted_fields[f] # None
              /\ DOMAIN extracted_fields[f] = {"value", "confidence", "provenance"}

FillC1 ==
    (pc = "fields_extracted" /\ pc' = "done") =>
        \A f \in SixFieldNames :
            IF extracted_fields[f] = None
            THEN extracted_fields'[f] =
                    [value |-> "", confidence |-> 0, provenance |-> debug_info'.text_stats.source]
            ELSE extracted_fields'[f] = extracted_fields[f]

\* C1: every returned result maps exactly the six field names to a
\* FieldExtraction, and a field whose parser returned no validated match
\* is returned with value "", confidence 0.0 and the provenance reported in
\* debug.text_stats.source.
TheoremC1 == []ShapeC1 /\ [][FillC1]_vars

\* a PDF that went through the OCR fallback, with one field matched and one
\* field filled in
WitnessC1 ==
    /\ Returned
    /\ file_type = "pdf"
    /\ debug_info.text_stats.source = "ocr_text"
    /\ extracted_fields["scheduled_pi"].confidence = 90
    /\ extracted_fields["escrow"] = [value |-> "", confidence |-> 0, provenance |-> "ocr_text"]

\* C2: every FieldExtraction, from a parser or from the fill, has a
\* confidence between 0.0 and 1.0, and an empty value has confidence 0.0.
TheoremC2 ==
    \A f \in DOMAIN extracted_fields :
        extracted_fields[f] # None =>
            /\ extracted_fields[f].confidence >= 0
            /\ extracted_fields[f].confidence <= 100
            /\ extracted_fields[f].value = "" => extracted_fields[f].confidence = 0

\* the escrow label followed by a lone comma: the pattern matches and the
\* number does not parse
WitnessC2 ==
    /\ Returned
    /\ parsers_run
    /\ text = "Escrow: ,"
    /\ extracted_fields["escrow"].value = ""

\* C3: when the acquired text is empty or whitespace only, the result has
\* the error "No text extracted from document", no parser was run, and all
\* six fields are empty with confidence 0.0.
TheoremC3 ==
    (pc \in {"fields_extracted", "done"} /\ \A i \in 1..Len(text) : Ch(text, i) \in {" ", "\n", "\t"}) =>
        /\ \E i \in 1..Len(debug_info.errors) :
              debug_info.errors[i] = "No text extracted from document"
        /\ ~parsers_run
        /\ pc = "fields_extracted" => \A f \in SixFieldNames : extracted_fields[f] = None
        /\ Returned =>
              \A f \in SixFieldNames :
                  extracted_fields[f].value = "" /\ extracted_fields[f].confidence = 0

\* an image whose selected OCR text is whitespace only
WitnessC3 ==
    /\ Returned
    /\ file_type = "image"
    /\ text = " \n "
    /\ debug_info.errors = <<"No text extracted from document">>

\* C4: a result for a non-empty text in which no field matched carries a
\* non-empty debug errors list that records the non-match.
ClaimC4 ==
    (/\ Returned
     /\ \E i \in 1..Len(text) : Ch(text, i) \notin {" ", "\n", "\t"}
     /\ \A f \in SixFieldNames : extracted_fields[f].value = "")
        => debug_info.errors # <<>>

ClaimKeywords ==
    {"LOAN", "PAYMENT", "BORROWER", "PRINCIPAL", "INTEREST", "RATE", "MATURITY", "ESCROW"}

\* digit_count + 50 * keyword_hits + floor(length / 200)
ClaimScore(t) ==
    LET digit_count ==
            Cardinality({i \in 1..Len(t) :
                Ch(t, i) \in {"0", "1", "2", "3", "4", "5", "6", "7", "8", "9"}})
        keyword_hits ==
            Cardinality({kw \in ClaimKeywords :
                \E i \in 1..(Len(t) - Len(kw) + 1) : Upper(SubSeq(t, i, i + Len(kw) - 1)) = kw})
    IN  digit_count + 50 * keyword_hits + (Len(t) \div 200)

\* C5: each pass is scored digit_count + 50 * keyword_hits + floor(len/200);
\* the enhanced text is returned only on a strictly greater score, the base
\* text on every tie; the provenance is ocr_text.
TheoremC5 ==
    ocr_passes.ran =>
        LET b == ocr_passes.base
            e == ocr_passes.enhanced
        IN  /\ score_text(b) = ClaimScore(b)
            /\ score_text(e) = ClaimScore(e)
            /\ b = "Loan 12" => score_text(b) = 52
            /\ b = "loan payment" => score_text(b) = 100
            /\ b = Rep("x", 200) => score_text(b) = 1
            /\ ClaimScore(e) > ClaimScore(b) => text = e
            /\ ClaimScore(e) <= ClaimScore(b) => text = b
            /\ text_provenance = "ocr_text"

\* two different texts with the same score: the base text is returned
WitnessC5 ==
    /\ ocr_passes.ran
    /\ ocr_passes.base = "1"
    /\ ocr_passes.enhanced = Rep("x", 200)
    /\ text = "1"

Parsed == parsers_run /\ pc \in {"fields_extracted", "done"}

\* a field of the state that holds a match
Matched(f) == extracted_fields[f] # None /\ extracted_fields[f].value # ""

FieldIs(f, v, c) ==
    /\ extracted_fields[f] # None
    /\ extracted_fields[f].value = v
    /\ extracted_fields[f].confidence = c

\* the claimed acceptance of an amount token
ClaimAmount(token) == ParseFloat(Remove(token, {"$", ","}))
ClaimAccepts(token) ==
    LET a == ClaimAmount(token)
    IN  /\ \E i \in 1..Len(token) : Ch(token, i) \in {"$", ",", "."}
        /\ a.ok
        /\ a.m >= 100 * Pow10(a.d)
        /\ a.m <= 100000 * Pow10(a.d)

\* digits, a point, two digits
TwoDecimals(v) ==
    /\ Len(v) >= 4
    /\ Ch(v, Len(v) - 2) = "."
    /\ \A i \in 1..Len(v) : i # Len(v) - 2 => Ch(v, i) \in DigitSet

\* v is the amount of the token rounded to two decimals
RoundsTo(token, v) ==
    LET a == ClaimAmount(token)
        x == ParseFloat(v)
        D == IF a.d > 2 THEN a.d ELSE 2
        A == a.m * Pow10(D - a.d)
        X == x.m * Pow10(D - 2)
    IN  x.ok /\ x.d = 2 /\ 2 * (X - A) <= Pow10(D - 2) /\ 2 * (A - X) <= Pow10(D - 2)

\* C6: scheduled_pi is matched exactly when a captured token has one of
\* "$", ",", "." and an amount in [100, 100000], both bounds included; the
\* value is that amount with two decimals and no "$" or comma.
TheoremC6 ==
    Parsed =>
        LET ms == PiMatches(text)
            hit == {k \in 1..Len(ms) : ms[k].m.s # 0 /\ ClaimAccepts(CapStr(text, ms[k].m))}
        IN  /\ Matched("scheduled_pi") <=> hit # {}
            /\ Matched("scheduled_pi") =>
                  \E k \in hit :
                      /\ extracted_fields["scheduled_pi"].confidence = ms[k].confidence
                      /\ TwoDecimals(extracted_fields["scheduled_pi"].value)
                      /\ RoundsTo(CapStr(text, ms[k].m), extracted_fields["scheduled_pi"].value)
            /\ text = "P&I: 1200" => ~Matched("scheduled_pi")
            /\ text = "P&I: $1,200.00" => FieldIs("scheduled_pi", "1200.00", 90)
            /\ text = "Monthly Payment: 1200.50" => FieldIs("scheduled_pi", "1200.50", 80)
            /\ text = "Amount Due: $50.00" => ~Matched("scheduled_pi")
            /\ text = "Amount Due: $150000.00" => ~Matched("scheduled_pi")
            /\ text = "Principal & Interest $1,234.56" => FieldIs("scheduled_pi", "1234.56", 90)
            /\ text = "P and I: $100.00" => FieldIs("scheduled_pi", "100.00", 90)
            /\ text = "Total Payment: $100,000.00" => FieldIs("scheduled_pi", "100000.00", 80)

\* an amount equal to the lower bound is accepted
WitnessC6 ==
    /\ Returned
    /\ text = "P and I: $100.00"
    /\ FieldIs("scheduled_pi", "100.00", 90)

\* the claimed sanity check 0 < rate <= 25 of a rate value
ClaimRateOk(v) ==
    LET r == ParseFloat(v) IN r.ok /\ r.m > 0 /\ r.m <= 25 * Pow10(r.d)

\* C7: the primary rule appends "%", corrects a leading § or S, and emits
\* the field at 0.90 exactly when the corrected rate is in (0, 25].
TheoremC7 ==
    Parsed =>
        LET v == NoteRatePrimaryValue(text)
        IN  /\ FieldIs("note_rate", v, 90) <=> ClaimRateOk(v)
            /\ (extracted_fields["note_rate"] # None /\ extracted_fields["note_rate"].confidence = 90)
                  => FieldIs("note_rate", v, 90)
            /\ Matched("note_rate") => ClaimRateOk(extracted_fields["note_rate"].value)
            /\ text = "Interest Rate: 4.125%" => FieldIs("note_rate", "4.125", 90)
            /\ text = "Note Rate: 25" => FieldIs("note_rate", "25", 90)
            /\ text = "Interest Rate: 30%" => v = "30" /\ ~Matched("note_rate")
            /\ text = "Note Rate: 0" => v = "0" /\ ~Matched("note_rate")
            /\ text = "Interest Rate: §.5600%" => FieldIs("note_rate", "5.5600", 90)
            /\ text = "Note Rate S.7500" => FieldIs("note_rate", "5.7500", 90)
            /\ text = "Current Interest Rate (fixed): §5.1200%" => v = "55.1200" /\ ~Matched("note_rate")
            /\ text = "interest rate: s.5600%" => v = "s.5600" /\ ~Matched("note_rate")

\* a labeled rate equal to the upper bound is accepted
WitnessC7 ==
    /\ Returned
    /\ text = "Note Rate: 25"
    /\ FieldIs("note_rate", "25", 90)

\* the claimed winner: the highest count, and among equal counts the value
\* whose first appearance is the earliest
ClaimCount(vs, v) == Cardinality({i \in 1..Len(vs) : vs[i] = v})
ClaimFirst(vs, v) == CHOOSE i \in 1..Len(vs) : vs[i] = v /\ \A j \in 1..(i - 1) : vs[j] # v
ClaimWinner(vs) ==
    CHOOSE v \in {vs[i] : i \in 1..Len(vs)} :
        \A j \in 1..Len(vs) :
            \/ ClaimCount(vs, vs[j]) < ClaimCount(vs, v)
            \/ ClaimCount(vs, vs[j]) = ClaimCount(vs, v) /\ ClaimFirst(vs, v) <= ClaimFirst(vs, vs[j])

\* C8: without a validated primary rate and with a phrase "Interest Rates",
\* the field is the most frequent valid token of the next 500 characters at
\* 0.70, the first seen among equally frequent ones, and unmatched when no
\* token is kept.
TheoremC8 ==
    (Parsed /\ ~ClaimRateOk(NoteRatePrimaryValue(text))) =>
        LET kept == ValidRates(FindRateTokens(RateSnippet(text), 1))
        IN  /\ IF kept = <<>> THEN ~Matched("note_rate")
               ELSE FieldIs("note_rate", ClaimWinner(kept), 70)
            /\ text = "Interest Rates\n6.2500% 5.5000% 5.5000%" => FieldIs("note_rate", "5.5000", 70)
            /\ text = "Interest Rates 6.2500% 5.5000%" => FieldIs("note_rate", "6.2500", 70)
            /\ text = "Interest Rates 6.2500% 5.5000% 5.5000% 6.2500%" => FieldIs("note_rate", "6.2500", 70)
            /\ text = "Interest Rates 30.0000% §.5600% 0.0000%" => FieldIs("note_rate", "5.5600", 70)
            /\ text = "Interest Rates 30.0000%" => ~Matched("note_rate")
            /\ text = "Interest Rate: 30% Interest Rates 4.5000% 4.5000%" => FieldIs("note_rate", "4.5000", 70)
            /\ text = WindowInside => FieldIs("note_rate", "3.2500", 70)
            /\ text = WindowCut => ~Matched("note_rate")

\* two values with the same count: the one seen first is returned
WitnessC8 ==
    /\ Returned
    /\ text = "Interest Rates 6.2500% 5.5000% 5.5000% 6.2500%"
    /\ FieldIs("note_rate", "6.2500", 70)

\* YYYY-MM-DD
ClaimIso(dt) == Pad4(dt.y) \o "-" \o Pad2(dt.m) \o "-" \o Pad2(dt.d)

ClaimDate(f, match) ==
    match.s # 0 =>
        LET date_str == CapStr(text, match)
        IN  IF ParseDate(date_str).ok
            THEN FieldIs(f, ClaimIso(ParseDate(date_str)), 90)
            ELSE FieldIs(f, date_str, 50)

\* C9: a date field whose label pattern matched is never unmatched: the
\* ISO YYYY-MM-DD form at 0.90 if the captured string parses as a date, the
\* captured string verbatim at 0.50 otherwise.
ClaimC9 ==
    Parsed =>
        /\ ClaimDate("next_due_date", Search(text, Upper(text), NextDueDateAt))
        /\ ClaimDate("maturity_date", Search(text, Upper(text), MaturityDateAt))
        /\ text = "Maturity Date: 01/15/2045" => FieldIs("maturity_date", "2045-01-15", 90)

\* len(text.strip()) as the claim words it: the length of the text between
\* its first and its last character that is not white space
TrimmedLen(t) ==
    LET ink == {i \in 1..Len(t) : Ch(t, i) \notin {" ", "\n", "\t"}}
    IN  IF ink = {} THEN 0 ELSE Max(ink) - Min(ink) + 1

\* the native extraction of the PDF branch is over
PdfExtracted == file_type = "pdf" /\ pc \notin {"idle", "direct_pdf_text"}

\* acquisition is over
AcquisitionDone == pc \in {"text_ready", "text_empty", "fields_extracted", "done"}

FallbackTriggered == pc = "needs_ocr" \/ ocr_runs >= 1

TriggerC10 ==
    /\ ocr_runs <= 1
    /\ file_type = "image" => ocr_runs = 0 /\ pc # "needs_ocr" /\ pc # "ocr_recovered"
    /\ PdfExtracted => (FallbackTriggered <=> TrimmedLen(native_text) < 100)
    /\ (PdfExtracted /\ native_text = Rep("x", 100)) => ~FallbackTriggered
    /\ (PdfExtracted /\ TrimmedLen(native_text) >= 100) =>
          text = native_text /\ text_provenance = "pdf_text"

OutcomeC10 ==
    (file_type = "pdf" /\ AcquisitionDone /\ ocr_runs >= 1) =>
        IF "ocr_tool" \in failures
        THEN text = native_text /\ text_provenance = "pdf_text"
        ELSE /\ text_provenance = "ocr_text"
             /\ text = (IF "reextract" \in failures THEN "" ELSE PdfText(ocr_page))

Rank(p) ==
    CASE p = "idle" -> 0
      [] p \in {"direct_pdf_text", "image_ocr"} -> 1
      [] p = "needs_ocr" -> 2
      [] p = "ocr_recovered" -> 3
      [] p \in {"text_ready", "text_empty"} -> 4
      [] p = "fields_extracted" -> 5
      [] p = "done" -> 6

\* within a request every step moves forward
NoCycleC10 == requests' = requests => Rank(pc') > Rank(pc)

RemoveAttempted == file_type = "pdf" /\ text_provenance = "ocr_text"

\* C11 as stated: once the fallback was triggered, the OCR output is gone
\* when process_extraction returns, unless its deletion was tried and failed.
ClaimC11 ==
    (Returned /\ ocr_runs >= 1) => (ocr_output = "absent" \/ RemoveAttempted)

\* the errors list a returned request has
ErrorsC11 ==
    Returned => debug_info.errors = (IF Strip(text) = "" THEN << NoTextError >> ELSE << >>)

RemoveC11 ==
    requests' = requests =>
        /\ (ocr_output = "present" /\ ocr_output' = "absent") => pc = "ocr_recovered"
        /\ pc = "ocr_recovered" =>
              /\ ocr_output' \in {"absent", "present"}
              /\ debug_info' = debug_info
              /\ text_provenance' = "ocr_text"
        /\ pc \notin {"needs_ocr", "ocr_recovered"} => ocr_output' = ocr_output
        /\ (pc = "needs_ocr" /\ pc' # "ocr_recovered") =>
              /\ text_provenance' = "pdf_text"
              /\ debug_info' = debug_info

\* C11, amended: the OCR output is deleted only in the branch taken when the
\* OCR tool succeeded, after the re-extraction and whether or not that
\* produced text; a failed deletion leaves the file in place and adds nothing
\* to the errors list; when the tool failed no deletion is tried, and what
\* the tool left at the output path is still there on return.
TheoremC11 ==
    /\ [](ErrorsC11 /\ (ocr_runs = 0 => ocr_output = "absent"))
    /\ [][RemoveC11]_vars

\* the tool succeeded, the re-extraction produced nothing, the output is gone
WitnessC11 ==
    /\ Returned
    /\ ocr_runs = 1
    /\ failures = {"reextract"}
    /\ text = ""
    /\ ocr_output = "absent"
    /\ debug_info.errors = << NoTextError >>

\* the provenance process_extraction starts with
DefaultProvenance == IF file_type = "pdf" THEN "pdf_text" ELSE "ocr_text"

FailureC12 ==
    AcquisitionDone =>
        /\ "image" \in failures =>
              file_type = "image" /\ text = "" /\ text_provenance = "ocr_text"
        /\ "pdf" \in failures =>
              file_type = "pdf" /\ native_text = "" /\ ocr_runs = 1
        /\ "ocr_tool" \in failures =>
              /\ text = native_text
              /\ TrimmedLen(text) < 100
              /\ text_provenance = "pdf_text"
        /\ "reextract" \in failures =>
              text = "" /\ text_provenance = "ocr_text"
        /\ ("pdf" \in failures /\ failures \cap {"ocr_tool", "reextract"} = {}) =>
              text = PdfText(ocr_page) /\ text_provenance = "ocr_text"

\* nothing a failed step raised reaches the caller or the errors list
AbsorbedC12 ==
    /\ \A i \in 1..Len(debug_info.errors) : debug_info.errors[i] = NoTextError
    /\ (Returned /\ failures # {}) =>
          /\ DOMAIN extracted_fields = FieldNames
          /\ text = "" => debug_info.errors = << NoTextError >>
          /\ text # "" => parsers_run

ClaimTierValid(M(_, _, _)) ==
    LET U == Upper(text)
    IN  \E i \in 1..Len(text) :
            /\ M(text, U, i).s # 0
            /\ ClaimAccepts(CapStr(text, M(text, U, i)))

\* the confidence of the highest tier with a validated amount, 0 for none
ClaimTier ==
    IF ClaimTierValid(PiPrimaryAt) THEN 90
    ELSE IF ClaimTierValid(PiSecondaryAt) THEN 80
    ELSE IF ClaimTierValid(PiFallbackAt) THEN 65
    ELSE 0

\* C13: scheduled_pi is matched whenever the text has a labeled amount that
\* passes validation, with the confidence of the highest tier that has one;
\* an amount that fails validation, in a higher tier or earlier in the text
\* under the same tier, does not stand in the way of a later valid one.
ClaimC13 ==
    Parsed =>
        IF ClaimTier = 0 THEN ~Matched("scheduled_pi")
        ELSE /\ Matched("scheduled_pi")
             /\ extracted_fields["scheduled_pi"].confidence = ClaimTier

====
